---- MODULE Spec2Model ----
(***************************************************************************)
(* A model of the cody_proxy request handlers.                             *)
(*                                                                         *)
(* Two variants of the proxy are in the repository:                        *)
(*   "server" : src/server.js          (fetch, with an SSE branch)         *)
(*   "part0"  : src/unnamed/part_000   (axios, no SSE branch)              *)
(* One behaviour of the model is one inbound request handled by one of the *)
(* variants (Spec, SpecSSE), or two requests in flight at once (SpecPair). *)
(* An action is the code a handler runs between two awaits.                *)
(*                                                                         *)
(* JavaScript values are modelled as strings; Undefined is the value of an *)
(* absent key.  Text is a sequence of one-character strings.               *)
(***************************************************************************)
EXTENDS Integers, Sequences, FiniteSets, TLC

VARIABLES
    variant,        \* which source file serves the request
    route,          \* "models" (GET /v1/models) or "chat" (POST /chat/completions)
    reqBody,        \* req.body
    pc,             \* the await the handler is suspended at
    tstream,        \* server.js:102, the flag the SSE decision reads
    sgBody,         \* the body sent upstream
    upstreamCalls,  \* number of fetch / axios calls issued for this request
    sgResp,         \* the upstream response (or the rejection of the call)
    res,            \* the Express response object
    upEvents,       \* SSE: the events the upstream body is made of
    wire,           \* SSE: upstream bytes not yet returned by reader.read()
    chunks,         \* SSE: the chunks reader.read() has returned so far
    decoder,        \* SSE: bytes the TextDecoder holds back (a partial character)
    nReads,         \* SSE: number of reader.read() calls that have settled
    eos,            \* SSE: reader.read() has answered done
    failedAt,       \* the await whose failure reached the catch block, or "none"
    clientGone,     \* the client has closed its connection
    lateStatus,     \* res.status() was called after the headers were sent
    config,         \* the module constants read from the environment at startup
    cur,            \* which of two requests the event loop is running
    peer            \* the variables of the other request, suspended at an await

vars == <<variant, route, reqBody, pc, tstream, sgBody, upstreamCalls, sgResp,
          res, upEvents, wire, chunks, decoder, nReads, eos, failedAt,
          clientGone, lateStatus, config, cur, peer>>

pairVars == <<config, cur, peer>>

sseVars == <<upEvents, wire, chunks, decoder, nReads, eos>>

----------------------------------------------------------------------------
(* Bounds *)

\* at most this many events in one upstream event stream
MaxEvents == 2
\* at most this many reader.read() calls return data
MaxReads == 3
\* at most this many entries in an upstream choices / data sequence
MaxItems == 2

----------------------------------------------------------------------------
(* JavaScript values *)

Undefined == "undefined"

\* the values `if (v)` and `v || d` treat as false
Falsy(v) == v \in {Undefined, "0", "", "false", "null"}

Or(v, d) == IF Falsy(v) THEN d ELSE v

RECURSIVE SeqsUpTo(_, _)
SeqsUpTo(S, n) ==
    IF n = 0 THEN {<<>>}
    ELSE LET shorter == SeqsUpTo(S, n - 1)
         IN  shorter \cup {Append(s, x) : s \in shorter, x \in S}

----------------------------------------------------------------------------
(* The Express response object *)

HeaderNames == {"Content-Type", "Cache-Control", "Connection"}

Unset == "unset"

NoJson == [type |-> "none"]

NewResponse ==
    [statusCode |-> 200,
     headers |-> [h \in HeaderNames |-> Unset],
     headersSent |-> FALSE,
     body |-> <<>>,
     json |-> NoJson,
     ended |-> FALSE]

\* res.setHeader(name, value)
SetHeader(r, name, value) == [r EXCEPT !.headers[name] = value]

\* res.status(code)
Status(r, code) == [r EXCEPT !.statusCode = code]

\* res.write(chunk): the first write sends the headers
Write(r, chunk) ==
    [r EXCEPT !.headersSent = TRUE, !.body = Append(@, chunk)]

\* res.end(): sends the headers if no write did, and ends the response
End(r) == [r EXCEPT !.headersSent = TRUE, !.ended = TRUE]

\* res.end(text)
EndWith(r, text) == End(Write(r, text))

\* Express sets the charset on the content type before it sends a string
WithCharset(t) ==
    IF t = "text/event-stream" THEN "text/event-stream; charset=utf-8"
    ELSE IF t = "application/json" THEN "application/json; charset=utf-8"
    ELSE t

\* res.send(text): content type text/html unless one is set
Send(r, text) ==
    LET t == IF r.headers["Content-Type"] = Unset
                THEN "text/html; charset=utf-8"
                ELSE WithCharset(r.headers["Content-Type"])
    IN  EndWith(SetHeader(r, "Content-Type", t), text)

\* res.json(obj): content type application/json unless one is set
Json(r, obj) ==
    LET t == IF r.headers["Content-Type"] = Unset
                THEN "application/json"
                ELSE r.headers["Content-Type"]
        typed == SetHeader(r, "Content-Type", WithCharset(t))
    IN  [End(typed) EXCEPT !.json = obj, !.body = Append(@, <<"json">>)]

\* res.send and res.json set headers: they throw once the headers are sent
SendThrows(r) == r.headersSent

ErrorObject(msg) == [type |-> "error", error |-> msg]

----------------------------------------------------------------------------
(* Requests and upstream replies *)

Variants == {"server", "part0"}
Routes == {"models", "chat"}

ChatRequests ==
    [model : {"m1"},
     messages : {"hi"},
     temperature : {Undefined, "0", "0.7"},
     max_tokens : {Undefined, "0", "100"},
     stream : {Undefined, "false", "true"}]

NoBody == [model |-> Undefined, messages |-> Undefined, temperature |-> Undefined,
           max_tokens |-> Undefined, stream |-> Undefined]

NoSgBody == [k \in {} |-> Undefined]

NoResp == [kind |-> "none"]

\* a non-success upstream reply: its status and its body text
ErrorReplies ==
    [kind : {"http"}, status : {401, 500}, ok : {FALSE},
     text : {"{\"error\":\"bad token\"}"}]

\* a model of the upstream catalog, with a field the client contract lacks
UpstreamModels ==
    [id : {"m1", "m2"}, object : {"model"}, created : {"1"}, owned_by : {"x"},
     extra : {"y"}]

UpstreamChoices ==
    [index : {"5"},
     message : {[present |-> TRUE, role |-> "assistant", content |-> "yo"],
                [present |-> FALSE, role |-> Undefined, content |-> Undefined]},
     finish_reason : {Undefined, "length"}]

\* what sgResp.json() / axios yields for a success reply: the parsed object,
\* or no object when the body is not JSON
ModelsData ==
    [parsed : {TRUE}, hasData : {TRUE}, data : SeqsUpTo(UpstreamModels, MaxItems)]
    \cup {[parsed |-> TRUE, hasData |-> FALSE, data |-> <<>>],
          [parsed |-> FALSE, hasData |-> FALSE, data |-> <<>>]}

ChatData ==
    [parsed : {TRUE}, id : {Undefined, "c1"}, created : {Undefined, "7"},
     model : {"m1"}, usage : {"u"}, hasChoices : {TRUE},
     choices : SeqsUpTo(UpstreamChoices, MaxItems)]
    \cup {[parsed |-> TRUE, id |-> Undefined, created |-> Undefined,
           model |-> Undefined, usage |-> Undefined, hasChoices |-> FALSE,
           choices |-> <<>>],
          [parsed |-> FALSE, id |-> Undefined, created |-> Undefined,
           model |-> Undefined, usage |-> Undefined, hasChoices |-> FALSE,
           choices |-> <<>>]}

SuccessReplies(rt) ==
    [kind : {"http"}, status : {200}, ok : {TRUE},
     data : IF rt = "models" THEN ModelsData ELSE ChatData]

Rejected == [kind |-> "rejected"]

----------------------------------------------------------------------------
(* The adapters *)

\* a body built by truthiness: a temperature of 0 is left out
SgBodyServer_Truthy(b) ==
    LET keys == {"model", "messages"}
                \cup (IF ~Falsy(b.temperature) THEN {"temperature"} ELSE {})
                \cup (IF b.max_tokens # Undefined THEN {"max_tokens"} ELSE {})
    IN  [k \in keys |-> b[k]]

\* server.js:91-100
SgBodyServer(b) ==
    LET keys == {"model", "messages"}
                \cup (IF b.temperature # Undefined THEN {"temperature"} ELSE {})
                \cup (IF b.max_tokens # Undefined THEN {"max_tokens"} ELSE {})
    IN  [k \in keys |-> b[k]]

\* part_000:78-87
SgBodyPart0(b) ==
    LET keys == {"model", "messages"}
                \cup (IF ~Falsy(b.max_tokens) THEN {"max_tokens"} ELSE {})
                \cup (IF b.temperature # Undefined THEN {"temperature"} ELSE {})
    IN  [k \in keys |-> b[k]]

\* server.js:107
WithStream(body) == [k \in DOMAIN body \cup {"stream"} |->
                        IF k = "stream" THEN "true" ELSE body[k]]

\* a catalog passed on as it came, extra fields included
ModelList_PassThrough(d) == [type |-> "list", data |-> d.data]

\* server.js:55-63, part_000:29-37; `type` is the key `object` of the list
ModelList(d) ==
    [type |-> "list",
     data |-> [i \in 1..Len(d.data) |->
                 [id |-> d.data[i].id, object |-> d.data[i].object,
                  created |-> d.data[i].created, owned_by |-> d.data[i].owned_by]]]

\* the clock: Math.floor(Date.now() / 1000)
NowSec == "now"

\* a mapping that numbers the choices from 1
Choices_OneBased(d) ==
    [i \in 1..Len(d.choices) |->
        [index |-> i,
         message |-> [role |-> d.choices[i].message.role,
                      content |-> d.choices[i].message.content],
         finish_reason |-> Or(d.choices[i].finish_reason, "stop")]]

\* a mapping that passes finish_reason on without the default
Choices_NoDefault(d) ==
    [i \in 1..Len(d.choices) |->
        [index |-> i - 1,
         message |-> [role |-> d.choices[i].message.role,
                      content |-> d.choices[i].message.content],
         finish_reason |-> d.choices[i].finish_reason]]

\* server.js:199-209, part_000:122-129; index is 0-based
Choices(d) ==
    [i \in 1..Len(d.choices) |->
        [index |-> i - 1,
         message |-> [role |-> d.choices[i].message.role,
                      content |-> d.choices[i].message.content],
         finish_reason |-> Or(d.choices[i].finish_reason, "stop")]]

\* server.js:193-210
ChatResponseServer(d) ==
    [type |-> "chat.completion", id |-> Or(d.id, "temp-id"),
     created |-> Or(d.created, NowSec), model |-> d.model, usage |-> d.usage,
     choices |-> Choices(d)]

\* part_000:116-130
ChatResponsePart0(d) ==
    [type |-> "chat.completion", id |-> d.id,
     created |-> Or(d.created, NowSec), model |-> d.model, usage |-> d.usage,
     choices |-> Choices(d)]

ModelsError == "Failed to list models from Sourcegraph"
ChatError == "Failed to create chat completion from Sourcegraph"

----------------------------------------------------------------------------
(* The state after the request has arrived *)

\* server.js:102
TStream == FALSE

InitRequest ==
    /\ variant \in Variants
    /\ route \in Routes
    /\ reqBody \in (IF route = "chat" THEN ChatRequests ELSE {NoBody})
    /\ pc = "start"
    /\ sgBody = NoSgBody
    /\ upstreamCalls = 0
    /\ sgResp = NoResp
    /\ res = NewResponse
    /\ upEvents = <<>>
    /\ wire = <<>>
    /\ chunks = <<>>
    /\ decoder = <<>>
    /\ nReads = 0
    /\ eos = FALSE
    /\ failedAt = "none"
    /\ clientGone = FALSE
    /\ lateStatus = FALSE

\* server.js:14-16, part_000:7-9
Config == [endpoint |-> "SRC_ENDPOINT", token |-> "SRC_ACCESS_TOKEN",
           port |-> "PORT"]

NoPeer == [pc |-> "none"]

\* one request in flight
Alone ==
    /\ config = Config
    /\ cur = 1
    /\ peer = NoPeer

Init ==
    /\ InitRequest
    /\ tstream = TStream
    /\ Alone

\* the catch block of a handler: res.status(500).json({ error: msg })
\* (server.js:68-71, 216-219; part_000:40-43, 136-139).  Once the headers are
\* sent res.json throws inside the catch block and the handler's promise
\* rejects with the response left open.
Catch(at, msg) ==
    /\ failedAt' = at
    /\ lateStatus' = (lateStatus \/ res.headersSent)
    /\ IF SendThrows(res)
          THEN /\ res' = Status(res, 500)
               /\ pc' = "unhandled"
          ELSE /\ res' = Json(Status(res, 500), ErrorObject(msg))
               /\ pc' = "done"

----------------------------------------------------------------------------
(* src/server.js, GET /v1/models *)

\* server.js:27-42, up to `await fetch`
GetModels_Request ==
    /\ variant = "server" /\ route = "models" /\ pc = "start"
    /\ upstreamCalls' = upstreamCalls + 1
    /\ pc' = "awaitFetch"
    /\ UNCHANGED <<pairVars, variant, route, reqBody, tstream, sgBody, sgResp, res,
                   sseVars, failedAt, clientGone, lateStatus>>

\* a handler that calls the upstream again when the call is rejected
GetModels_FetchSettled_Retry ==
    /\ variant = "server" /\ route = "models" /\ pc = "awaitFetch"
    /\ \E r \in ErrorReplies \cup SuccessReplies("models") \cup {Rejected} :
          /\ sgResp' = r
          /\ IF r.kind = "rejected"
                THEN /\ upstreamCalls' = upstreamCalls + 1
                     /\ Catch("call", ModelsError)
                ELSE /\ pc' = IF r.ok THEN "awaitJson" ELSE "awaitErrText"
                     /\ UNCHANGED <<res, upstreamCalls, failedAt, lateStatus>>
    /\ UNCHANGED <<pairVars, variant, route, reqBody, tstream, sgBody,
                   sseVars, clientGone>>

\* server.js:43-51: fetch settles; on !ok await text(), else await json()
GetModels_FetchSettled ==
    /\ variant = "server" /\ route = "models" /\ pc = "awaitFetch"
    /\ \E r \in ErrorReplies \cup SuccessReplies("models") \cup {Rejected} :
          /\ sgResp' = r
          /\ IF r.kind = "rejected"
                THEN Catch("call", ModelsError)
                ELSE /\ pc' = IF r.ok THEN "awaitJson" ELSE "awaitErrText"
                     /\ UNCHANGED <<res, failedAt, lateStatus>>
    /\ UNCHANGED <<pairVars, variant, route, reqBody, tstream, sgBody, upstreamCalls,
                   sseVars, clientGone>>

\* server.js:45-49: the error body is read and forwarded with the status
GetModels_ErrText ==
    /\ variant = "server" /\ route = "models" /\ pc = "awaitErrText"
    /\ \E readOk \in BOOLEAN :
          IF readOk
             THEN /\ res' = Send(Status(res, sgResp.status), <<sgResp.text>>)
                  /\ pc' = "done"
                  /\ UNCHANGED <<failedAt, lateStatus>>
             ELSE Catch("text", ModelsError)
    /\ UNCHANGED <<pairVars, variant, route, reqBody, tstream, sgBody, upstreamCalls,
                   sgResp, sseVars, clientGone>>

\* server.js:51-66: the catalog is parsed, mapped and sent
GetModels_Json ==
    /\ variant = "server" /\ route = "models" /\ pc = "awaitJson"
    /\ IF sgResp.data.parsed /\ sgResp.data.hasData
          THEN /\ res' = Json(res, ModelList(sgResp.data))
               /\ pc' = "done"
               /\ UNCHANGED <<failedAt, lateStatus>>
          ELSE Catch("json", ModelsError)
    /\ UNCHANGED <<pairVars, variant, route, reqBody, tstream, sgBody, upstreamCalls,
                   sgResp, sseVars, clientGone>>

----------------------------------------------------------------------------
(* Text: bytes, the decoder, lines *)

\* a byte is "a", "b", " ", "\n", or the lead "L" or the trail "T" of the one
\* two-byte character
TwoByteChar == "U+00E9"
ReplacementChar == "U+FFFD"

RECURSIVE Flatten(_)
Flatten(ss) == IF ss = <<>> THEN <<>> ELSE Head(ss) \o Flatten(Tail(ss))

\* new TextDecoder().decode(value, { stream: true }) (server.js:139, 148):
\* `held` is what the decoder kept from the reads before; the result is the
\* text decoded now and what is kept for the next read
RECURSIVE DecodeFrom(_, _, _)
DecodeFrom(held, bytes, out) ==
    IF bytes = <<>> THEN [text |-> out, held |-> held]
    ELSE LET b == Head(bytes)
         IN  IF held = <<>>
                THEN IF b = "L" THEN DecodeFrom(<<b>>, Tail(bytes), out)
                     ELSE IF b = "T"
                             THEN DecodeFrom(<<>>, Tail(bytes),
                                             Append(out, ReplacementChar))
                             ELSE DecodeFrom(<<>>, Tail(bytes), Append(out, b))
                ELSE IF b = "T"
                        THEN DecodeFrom(<<>>, Tail(bytes), Append(out, TwoByteChar))
                        ELSE DecodeFrom(<<>>, bytes, Append(out, ReplacementChar))

Decode(held, bytes) == DecodeFrom(held, bytes, <<>>)

\* chunkText.split("\n") (server.js:154)
RECURSIVE SplitFrom(_, _)
SplitFrom(text, line) ==
    IF text = <<>> THEN <<line>>
    ELSE IF Head(text) = "\n" THEN <<line>> \o SplitFrom(Tail(text), <<>>)
    ELSE SplitFrom(Tail(text), Append(line, Head(text)))

SplitLines(text) == SplitFrom(text, <<>>)

IsSpace(c) == c \in {" ", "\n"}

RECURSIVE TrimStart(_)
TrimStart(s) ==
    IF s # <<>> /\ IsSpace(Head(s)) THEN TrimStart(Tail(s)) ELSE s

RECURSIVE TrimEnd(_)
TrimEnd(s) ==
    IF s # <<>> /\ IsSpace(s[Len(s)]) THEN TrimEnd(SubSeq(s, 1, Len(s) - 1)) ELSE s

\* String.prototype.trim (server.js:156)
Trim(s) == TrimEnd(TrimStart(s))

\* `data: ${line}\n\n` (server.js:157)
Envelope(line) == <<"data: ">> \o line \o <<"\n", "\n">>

\* "data: [DONE]\n\n" (server.js:163)
Sentinel == <<"data: ", "[DONE]", "\n", "\n">>

\* server.js:155-159: one res.write per line that is not blank
RECURSIVE WriteLines(_, _)
WriteLines(r, lines) ==
    IF lines = <<>> THEN r
    ELSE IF Trim(Head(lines)) # <<>>
            THEN WriteLines(Write(r, Envelope(Head(lines))), Tail(lines))
            ELSE WriteLines(r, Tail(lines))

\* a relay that holds back the text after the last line break of a read and
\* never writes it
RelayChunk_DropTail(r, chunkText) ==
    LET lines == SplitLines(chunkText)
    IN  WriteLines(r, SubSeq(lines, 1, Len(lines) - 1))

\* server.js:147-159: what one read's value does to the response
RelayChunk(r, chunkText) == WriteLines(r, SplitLines(chunkText))

----------------------------------------------------------------------------
(* The upstream event stream *)

\* the events an upstream body is made of: a line, a two-byte character, a
\* line with leading white space, an event of two lines
EventTexts == {<<"a", "b">>, <<"L", "T">>, <<" ", "a">>, <<"a", "\n", "b">>}

EventStreams == SeqsUpTo(EventTexts, MaxEvents)

\* every upstream event ends with a blank line
RECURSIVE StreamBytes(_)
StreamBytes(evs) ==
    IF evs = <<>> THEN <<>>
    ELSE Head(evs) \o <<"\n", "\n">> \o StreamBytes(Tail(evs))

StreamReply == [kind |-> "http", status |-> 200, ok |-> TRUE, stream |-> TRUE]

----------------------------------------------------------------------------
(* src/server.js, POST /chat/completions *)

\* server.js:110-112
SseHeaders(r) ==
    SetHeader(SetHeader(SetHeader(r, "Content-Type", "text/event-stream"),
                        "Cache-Control", "no-cache"),
              "Connection", "keep-alive")

\* server.js:77-127 (SSE branch) or 77-104, 166-179: up to `await fetch`
PostChat_Request ==
    /\ variant = "server" /\ route = "chat" /\ pc = "start"
    /\ IF tstream
          THEN /\ sgBody' = WithStream(SgBodyServer(reqBody))
               /\ res' = SseHeaders(res)
          ELSE /\ sgBody' = SgBodyServer(reqBody)
               /\ res' = res
    /\ upstreamCalls' = upstreamCalls + 1
    /\ pc' = "awaitFetch"
    /\ UNCHANGED <<pairVars, variant, route, reqBody, tstream, sgResp, sseVars,
                   failedAt, clientGone, lateStatus>>

\* server.js:128-142 or 180-188: fetch settles; on !ok await text(), else
\* await the first reader.read() (SSE) or json()
PostChat_FetchSettled ==
    /\ variant = "server" /\ route = "chat" /\ pc = "awaitFetch"
    /\ \E r \in ErrorReplies \cup {Rejected}
                \cup (IF tstream THEN {StreamReply} ELSE SuccessReplies("chat")) :
          /\ sgResp' = r
          /\ IF r.kind = "rejected"
                THEN Catch("call", ChatError) /\ UNCHANGED <<upEvents, wire>>
                ELSE /\ pc' = IF ~r.ok THEN "awaitErrText"
                              ELSE IF tstream THEN "awaitRead" ELSE "awaitJson"
                     /\ IF r.ok /\ tstream
                           THEN \E evs \in EventStreams :
                                   /\ upEvents' = evs
                                   /\ wire' = StreamBytes(evs)
                           ELSE UNCHANGED <<upEvents, wire>>
                     /\ UNCHANGED <<res, failedAt, lateStatus>>
    /\ UNCHANGED <<pairVars, variant, route, reqBody, tstream, sgBody, upstreamCalls,
                   chunks, decoder, nReads, eos, clientGone>>

\* server.js:130-135 (SSE: res.status(..); res.end(errText)) or 182-186
\* (res.status(..).send(errText))
PostChat_ErrText ==
    /\ variant = "server" /\ route = "chat" /\ pc = "awaitErrText"
    /\ \E readOk \in BOOLEAN :
          IF readOk
             THEN /\ res' = IF tstream
                               THEN EndWith(Status(res, sgResp.status), <<sgResp.text>>)
                               ELSE Send(Status(res, sgResp.status), <<sgResp.text>>)
                  /\ pc' = "done"
                  /\ UNCHANGED <<failedAt, lateStatus>>
             ELSE Catch("text", ChatError)
    /\ UNCHANGED <<pairVars, variant, route, reqBody, tstream, sgBody, upstreamCalls,
                   sgResp, sseVars, clientGone>>

\* server.js:188-214: the reply is parsed, mapped and sent
PostChat_Json ==
    /\ variant = "server" /\ route = "chat" /\ pc = "awaitJson"
    /\ IF sgResp.data.parsed
          THEN /\ res' = Json(res, ChatResponseServer(sgResp.data))
               /\ pc' = "done"
               /\ UNCHANGED <<failedAt, lateStatus>>
          ELSE Catch("json", ChatError)
    /\ UNCHANGED <<pairVars, variant, route, reqBody, tstream, sgBody, upstreamCalls,
                   sgResp, sseVars, clientGone>>

\* server.js:141-160: reader.read() returns a value; it is decoded, split
\* into lines and each line that is not blank is written
PostChat_ReadChunk ==
    /\ variant = "server" /\ route = "chat" /\ pc = "awaitRead"
    /\ Len(chunks) < MaxReads
    /\ \E k \in 1..Len(wire) :
          LET value == SubSeq(wire, 1, k)
              dec == Decode(decoder, value)
          IN  /\ wire' = SubSeq(wire, k + 1, Len(wire))
              /\ chunks' = Append(chunks, value)
              /\ decoder' = dec.held
              /\ res' = RelayChunk(res, dec.text)
    /\ nReads' = nReads + 1
    /\ pc' = "awaitRead"
    /\ UNCHANGED <<pairVars, variant, route, reqBody, tstream, sgBody, upstreamCalls,
                   sgResp, upEvents, eos, failedAt, clientGone, lateStatus>>

\* an end of stream that closes the response without the sentinel
Finish_NoSentinel(r) == End(r)

\* server.js:162-164
Finish(r) == End(Write(r, Sentinel))

\* server.js:142-146, 162-164: reader.read() answers done; the sentinel is
\* written and the response ended
PostChat_ReadDone ==
    /\ variant = "server" /\ route = "chat" /\ pc = "awaitRead"
    /\ wire = <<>>
    /\ eos' = TRUE
    /\ nReads' = nReads + 1
    /\ res' = Finish(res)
    /\ pc' = "done"
    /\ UNCHANGED <<pairVars, variant, route, reqBody, tstream, sgBody, upstreamCalls,
                   sgResp, upEvents, wire, chunks, decoder, failedAt,
                   clientGone, lateStatus>>

\* server.js:142, 216-219: reader.read() rejects (the upstream stream fails
\* or is closed abruptly); control passes to the catch block
PostChat_ReadRejected ==
    /\ variant = "server" /\ route = "chat" /\ pc = "awaitRead"
    /\ nReads' = nReads + 1
    /\ Catch("read", ChatError)
    /\ UNCHANGED <<pairVars, variant, route, reqBody, tstream, sgBody, upstreamCalls,
                   sgResp, upEvents, wire, chunks, decoder, eos, clientGone>>

\* the client closes its connection while the stream is relayed; no handler
\* of server.js listens for it
ClientDisconnect ==
    /\ pc = "awaitRead" /\ ~clientGone
    /\ clientGone' = TRUE
    /\ UNCHANGED <<pairVars, variant, route, reqBody, pc, tstream, sgBody, upstreamCalls,
                   sgResp, res, sseVars, failedAt, lateStatus>>

----------------------------------------------------------------------------
(* src/unnamed/part_000: axios resolves on a 2xx reply with the parsed body *)
(* and rejects on every other status and on a transport failure            *)

\* which failure took a settled axios call to the catch block: a transport
\* failure, a status outside 2xx, or the mapping of the parsed body
AxiosFailure(r) ==
    IF r.kind = "rejected" THEN "call"
    ELSE IF ~r.ok THEN "status"
    ELSE "json"

\* part_000:14-23
P0_GetModels_Request ==
    /\ variant = "part0" /\ route = "models" /\ pc = "start"
    /\ upstreamCalls' = upstreamCalls + 1
    /\ pc' = "awaitFetch"
    /\ UNCHANGED <<pairVars, variant, route, reqBody, tstream, sgBody, sgResp, res,
                   sseVars, failedAt, clientGone, lateStatus>>

\* part_000:29-43
P0_GetModels_Settled ==
    /\ variant = "part0" /\ route = "models" /\ pc = "awaitFetch"
    /\ \E r \in ErrorReplies \cup SuccessReplies("models") \cup {Rejected} :
          /\ sgResp' = r
          /\ IF r.kind = "http" /\ r.ok /\ r.data.parsed /\ r.data.hasData
                THEN /\ res' = Json(res, ModelList(r.data))
                     /\ pc' = "done"
                     /\ UNCHANGED <<failedAt, lateStatus>>
                ELSE Catch(AxiosFailure(r), ModelsError)
    /\ UNCHANGED <<pairVars, variant, route, reqBody, tstream, sgBody, upstreamCalls,
                   sseVars, clientGone>>

\* part_000:49-100
P0_PostChat_Request ==
    /\ variant = "part0" /\ route = "chat" /\ pc = "start"
    /\ sgBody' = SgBodyPart0(reqBody)
    /\ upstreamCalls' = upstreamCalls + 1
    /\ pc' = "awaitFetch"
    /\ UNCHANGED <<pairVars, variant, route, reqBody, tstream, sgResp, res, sseVars,
                   failedAt, clientGone, lateStatus>>

\* part_000:115-139; a body that is not JSON reaches the mapping as a string,
\* whose fields are all undefined
P0_PostChat_Settled ==
    /\ variant = "part0" /\ route = "chat" /\ pc = "awaitFetch"
    /\ \E r \in ErrorReplies \cup SuccessReplies("chat") \cup {Rejected} :
          /\ sgResp' = r
          /\ IF r.kind = "http" /\ r.ok
                THEN /\ res' = Json(res, ChatResponsePart0(r.data))
                     /\ pc' = "done"
                     /\ UNCHANGED <<failedAt, lateStatus>>
                ELSE Catch(AxiosFailure(r), ChatError)
    /\ UNCHANGED <<pairVars, variant, route, reqBody, tstream, sgBody, upstreamCalls,
                   sseVars, clientGone>>

----------------------------------------------------------------------------
(* Specifications *)

\* the program as shipped: server.js:102 fixes the SSE decision
Next ==
    \/ GetModels_Request
    \/ GetModels_FetchSettled
    \/ GetModels_ErrText
    \/ GetModels_Json
    \/ PostChat_Request
    \/ PostChat_FetchSettled
    \/ PostChat_ErrText
    \/ PostChat_Json
    \/ P0_GetModels_Request
    \/ P0_GetModels_Settled
    \/ P0_PostChat_Request
    \/ P0_PostChat_Settled

Spec == Init /\ [][Next]_vars

\* The SSE branch of server.js (105-165) as written.  Line 102 fixes tstream
\* to false, so no behaviour of Spec enters the branch; SpecSSE runs the
\* branch from its entry, the test of line 105 taken as true.  The relay does
\* not read temperature or max_tokens.
InitSSE ==
    /\ InitRequest
    /\ variant = "server"
    /\ route = "chat"
    /\ reqBody.temperature = Undefined
    /\ reqBody.max_tokens = Undefined
    /\ tstream = TRUE
    /\ Alone

NextSSE ==
    \/ PostChat_Request
    \/ PostChat_FetchSettled
    \/ PostChat_ErrText
    \/ PostChat_ReadChunk
    \/ PostChat_ReadDone
    \/ PostChat_ReadRejected
    \/ ClientDisconnect

SpecSSE == InitSSE /\ [][NextSSE]_vars

----------------------------------------------------------------------------
(* Two requests in flight *)

\* Node runs one handler at a time and leaves it only at an await.  Every
\* variable of a handler is a parameter or a const/let/var of the handler
\* function (server.js:27, 77; part_000:14, 49), one set per call; the only
\* module-level bindings are the constants of `config`.

\* the variables of the call that is running
Locals ==
    [route |-> route, reqBody |-> reqBody, pc |-> pc, sgBody |-> sgBody,
     upstreamCalls |-> upstreamCalls, sgResp |-> sgResp, res |-> res,
     failedAt |-> failedAt, clientGone |-> clientGone,
     lateStatus |-> lateStatus]

\* the state of a call that has not begun
NewCall(rt, body) ==
    [route |-> rt, reqBody |-> body, pc |-> "start", sgBody |-> NoSgBody,
     upstreamCalls |-> 0, sgResp |-> NoResp, res |-> NewResponse,
     failedAt |-> "none", clientGone |-> FALSE, lateStatus |-> FALSE]

\* the bodies of the two requests: the first without temperature, the
\* second with one
FirstRequests ==
    {b \in ChatRequests : /\ b.temperature = Undefined
                          /\ b.max_tokens = Undefined
                          /\ b.stream = Undefined}

SecondRequests ==
    {b \in ChatRequests : /\ b.temperature = "0.7"
                          /\ b.max_tokens = Undefined
                          /\ b.stream = Undefined}

PairCalls ==
    {NewCall("models", NoBody)} \cup {NewCall("chat", b) : b \in SecondRequests}

\* a handler in which sgResp is a module-level variable: the call that
\* resumes finds the reply of the call that ran last
Resume_SharedReply(saved, running) ==
    [saved EXCEPT !.sgResp = IF running.sgResp # NoResp THEN running.sgResp
                             ELSE saved.sgResp]

\* what a call finds in its variables when it resumes after `saved` was
\* suspended and `running` ran: its own (server.js:35, 51, 87-100, 171, 188;
\* part_000:16, 69-90 declare them inside the handler)
Resume(saved, running) == saved

InitPair ==
    /\ InitRequest
    /\ reqBody \in FirstRequests \cup {NoBody}
    /\ tstream = TStream
    /\ config = Config
    /\ cur = 1
    /\ peer \in PairCalls

\* the running call is at an await (or has not begun, or has finished) and
\* the event loop runs the other call, which has something left to do
Switch ==
    /\ peer.pc \notin {"done", "unhandled"}
    /\ LET r == Resume(peer, Locals)
       IN  /\ route' = r.route
           /\ reqBody' = r.reqBody
           /\ pc' = r.pc
           /\ sgBody' = r.sgBody
           /\ upstreamCalls' = r.upstreamCalls
           /\ sgResp' = r.sgResp
           /\ res' = r.res
           /\ failedAt' = r.failedAt
           /\ clientGone' = r.clientGone
           /\ lateStatus' = r.lateStatus
    /\ peer' = Locals
    /\ cur' = 3 - cur
    /\ UNCHANGED <<variant, tstream, config, sseVars>>

NextPair == Next \/ Switch

SpecPair == InitPair /\ [][NextPair]_vars

----------------------------------------------------------------------------
(* What the claims speak of *)

Done == pc = "done"

UpstreamOk == sgResp.kind = "http" /\ sgResp.ok

UpstreamRefused == sgResp.kind = "http" /\ ~sgResp.ok

\* the relay is running or has run: the SSE branch got a success reply
Relaying == tstream /\ UpstreamOk

Last(s) == s[Len(s)]

\* the events written to the client, the sentinel apart
SseEvents(r) == SelectSeq(r.body, LAMBDA w : w[1] = "data: " /\ w # Sentinel)

\* the text between `data: ` and the blank line
Payload(w) == SubSeq(w, 2, Len(w) - 2)

Payloads(r) == [i \in 1..Len(SseEvents(r)) |-> Payload(SseEvents(r)[i])]

NonSpace(s) == SelectSeq(s, LAMBDA c : ~IsSpace(c))

StreamHeaderSet(r) ==
    \/ r.headers["Content-Type"] \in {"text/event-stream",
                                      "text/event-stream; charset=utf-8"}
    \/ r.headers["Cache-Control"] # Unset
    \/ r.headers["Connection"] # Unset

IsEventStream(r) ==
    /\ r.headers["Content-Type"] = "text/event-stream"
    /\ r.headers["Cache-Control"] = "no-cache"
    /\ r.headers["Connection"] = "keep-alive"
    /\ r.body # <<>>
    /\ Last(r.body) = Sentinel
    /\ r.ended

\* the text of an upstream event, decoded whole and trimmed
EventText(e) == Trim(Decode(<<>>, e).text)

OneLine(e) == \A i \in 1..Len(e) : e[i] # "\n"

----------------------------------------------------------------------------
(* Claims *)

\* C1: a chat request whose upstream call succeeds is answered on the path
\* its stream flag names: stream = true gets the event-stream headers and a
\* body ending with the sentinel, stream false or absent gets the JSON
\* chat completion.
C1_StreamFlagDecidesPath ==
    (route = "chat" /\ Done /\ UpstreamOk /\ failedAt = "none") =>
        IF reqBody.stream = "true"
           THEN IsEventStream(res)
           ELSE res.json.type = "chat.completion"

C10_OneUpstreamCall ==
    /\ upstreamCalls <= 1
    /\ pc # "start" => upstreamCalls = 1

C10_Witness ==
    /\ Done /\ upstreamCalls = 1
    /\ failedAt = "call"

----------------------------------------------------------------------------
(* Claims on the adapters and the error mapper *)

\* the handler has answered a chat request from a success reply with a JSON body
ChatAnswered ==
    route = "chat" /\ Done /\ UpstreamOk /\ sgResp.data.parsed /\ failedAt = "none"

\* the call was rejected, a body could not be read, the success body is not
\* JSON, or the catalog has no data sequence
TransportFailure ==
    \/ sgResp.kind = "rejected"
    \/ failedAt \in {"text", "json"}
    \/ UpstreamOk /\ ~sgResp.data.parsed
    \/ UpstreamOk /\ route = "models" /\ ~sgResp.data.hasData

GenericError == IF route = "models" THEN ModelsError ELSE ChatError

\* C12: a request that ends in a local or transport failure is answered with
\* status 500 and the fixed error object of its route, nothing else.
C12_TransportFailureIs500 ==
    (Done /\ TransportFailure) =>
        /\ res.statusCode = 500
        /\ res.json = ErrorObject(GenericError)
        /\ res.body = << <<"json">> >>

\* C13: the upstream chat body has the key temperature exactly when the
\* inbound request defines temperature, and then with the inbound value.
C13_TemperatureKept ==
    (route = "chat" /\ pc # "start") =>
        /\ ("temperature" \in DOMAIN sgBody) <=> (reqBody.temperature # Undefined)
        /\ "temperature" \in DOMAIN sgBody =>
              sgBody["temperature"] = reqBody.temperature

C13_Witness ==
    /\ route = "chat" /\ Done
    /\ reqBody.temperature = "0"
    /\ "temperature" \in DOMAIN sgBody
    /\ sgBody["temperature"] = "0"

\* C14: the upstream chat body has the key max_tokens exactly when the
\* inbound request defines max_tokens, and then with the inbound value.
C14_MaxTokensKept ==
    (route = "chat" /\ pc # "start") =>
        /\ ("max_tokens" \in DOMAIN sgBody) <=> (reqBody.max_tokens # Undefined)
        /\ "max_tokens" \in DOMAIN sgBody =>
              sgBody["max_tokens"] = reqBody.max_tokens

\* C15: the upstream chat body has the key stream exactly when the inbound
\* request has stream = true, and then with the value true.
C15_StreamKeyFollowsFlag ==
    (route = "chat" /\ pc # "start") =>
        /\ ("stream" \in DOMAIN sgBody) <=> (reqBody.stream = "true")
        /\ "stream" \in DOMAIN sgBody => sgBody["stream"] = "true"

\* C16: the chat response has as many choices as the upstream reply, in the
\* upstream order, the i-th (from 0) with index i; a reply without choices
\* gives an empty sequence.
C16_ChoicesIndexed ==
    ChatAnswered =>
        LET up == sgResp.data.choices
            out == res.json.choices
        IN  /\ res.statusCode = 200
            /\ Len(out) = Len(up)
            /\ \A i \in 1..Len(out) :
                  /\ out[i].index = i - 1
                  /\ out[i].message.role = up[i].message.role
                  /\ out[i].message.content = up[i].message.content

C16_Witness ==
    /\ ChatAnswered
    /\ Len(res.json.choices) = 2
    /\ sgResp.data.choices[1] # sgResp.data.choices[2]

\* C17: the model list sent has object "list" and one element per upstream
\* model, in the upstream order, each with exactly the keys id, object,
\* created, owned_by and the upstream values.
C17_ModelListMapped ==
    (route = "models" /\ Done /\ UpstreamOk /\ failedAt = "none") =>
        LET up == sgResp.data.data
            out == res.json.data
        IN  /\ res.json.type = "list"
            /\ Len(out) = Len(up)
            /\ \A i \in 1..Len(out) :
                  /\ DOMAIN out[i] = {"id", "object", "created", "owned_by"}
                  /\ \A k \in DOMAIN out[i] : out[i][k] = up[i][k]

C17_Witness ==
    /\ route = "models" /\ Done /\ UpstreamOk /\ failedAt = "none"
    /\ Len(res.json.data) = 2
    /\ res.json.data[1].id # res.json.data[2].id

\* C18: every choice of the chat response has the upstream finish_reason when
\* the upstream gave one and "stop" when it gave none.
C18_FinishReasonDefault ==
    ChatAnswered =>
        \A i \in 1..Len(res.json.choices) :
            LET given == sgResp.data.choices[i].finish_reason
                sent == res.json.choices[i].finish_reason
            IN  /\ sent # Undefined
                /\ sent = IF given = Undefined THEN "stop" ELSE given

C18_Witness ==
    /\ ChatAnswered
    /\ Len(res.json.choices) = 2
    /\ res.json.choices[1].finish_reason = "stop"
    /\ res.json.choices[2].finish_reason = "length"

\* C19: the chat response has id and created populated: the upstream id or
\* the placeholder, the upstream created or the current time.
C19_IdAndCreatedPopulated ==
    ChatAnswered =>
        /\ res.json.id # Undefined
        /\ res.json.id = IF sgResp.data.id = Undefined THEN "temp-id"
                          ELSE sgResp.data.id
        /\ res.json.created # Undefined
        /\ res.json.created = IF sgResp.data.created = Undefined THEN NowSec
                               ELSE sgResp.data.created

----------------------------------------------------------------------------
(* Claim on two requests in flight *)

\* request i of the two: the one running or the one suspended
Req(i) == IF cur = i THEN Locals ELSE peer

\* the response the handlers give a request that runs alone, from the reply
\* the upstream gave it and the await that failed
SoloResponse(q) ==
    IF q.failedAt # "none"
       THEN Json(Status(NewResponse, 500),
                 ErrorObject(IF q.route = "models" THEN ModelsError ELSE ChatError))
    ELSE IF ~q.sgResp.ok
       THEN Send(Status(NewResponse, q.sgResp.status), <<q.sgResp.text>>)
    ELSE IF q.route = "models"
       THEN Json(NewResponse, ModelList(q.sgResp.data))
    ELSE IF variant = "server"
       THEN Json(NewResponse, ChatResponseServer(q.sgResp.data))
       ELSE Json(NewResponse, ChatResponsePart0(q.sgResp.data))

\* a step leaves the configuration alone, changes the variables of no
\* request but the one that runs, and leaves a finished request with the
\* response it gets when it runs alone
Isolated ==
    /\ config' = config
    /\ \A i \in {1, 2} : (cur' # cur \/ cur # i) => Req(i)' = Req(i)
    /\ \A i \in {1, 2} :
          Req(i)'.pc = "done" => Req(i)'.res = SoloResponse(Req(i)')

\* C11: two requests in flight share only the startup configuration, which
\* no handler changes; whatever the interleaving at the awaits, a step of one
\* request changes no variable of the other, and each client gets the
\* response its request gets when it runs alone with the same upstream reply.
C11_RequestsDoNotInterfere == [][Isolated]_vars

\* request 2 has run to its response while request 1 was suspended with its
\* own, different reply in hand
C11_Witness ==
    /\ cur = 2 /\ pc = "done" /\ route = "chat"
    /\ peer.pc = "awaitJson" /\ peer.route = "chat"
    /\ peer.sgResp # sgResp
    /\ peer.reqBody # reqBody
    /\ res = SoloResponse(Locals)
    /\ config = Config

====
